---- MODULE Spec2Model ----
(***************************************************************************)
(* Telugu Bhasha Detective: the persistence store (database/db_manager.py) *)
(* and the progressive-unlock and scoring logic of app.py.                 *)
(*                                                                         *)
(* The specifications share the store variables:                           *)
(*   Spec        the Streamlit application: one session per user id, each  *)
(*               script run (load_user_data + one page handler) one step;  *)
(*   StoreSpec   the public methods of TeluguCorpusDB called in any order  *)
(*               by concurrent connections (statement / commit steps);     *)
(*   ConcSpec    concurrent update_user_points calls only;                 *)
(*   SchemaSpec  the store opened again and again (init_database);         *)
(*   JourneySpec one session through the whole catalog, no operation       *)
(*               raising; JourneyLiveSpec adds that it keeps submitting;   *)
(*   EngineSpec  the unlock engine applied to arbitrary inputs;            *)
(*   BoardSpec   get_leaderboard applied to arbitrary users tables.        *)
(***************************************************************************)
EXTENDS Integers, Sequences, FiniteSets, Bags, TLC

\* ------------------------------------------------------------------ bounds
MaxSubmits == 2
MaxFaults == 1
MaxSolvedCount == 7
MaxCalls == 3

\* --------------------------------------------------------------- constants
Users == {"u1", "u2"}
None == [none |-> TRUE]

\* app.py TELUGU_MYSTERIES: the fields the engine and the scoring read
TELUGU_MYSTERIES ==
  << [mystery_id |-> "telangana_bathukamma_001", difficulty_level |-> 1,
      points_value |-> 15, unlock_requirement |-> 0],
     [mystery_id |-> "andhra_ugadi_002", difficulty_level |-> 1,
      points_value |-> 12, unlock_requirement |-> 1],
     [mystery_id |-> "food_gongura_003", difficulty_level |-> 2,
      points_value |-> 18, unlock_requirement |-> 2],
     [mystery_id |-> "telangana_bonalu_004", difficulty_level |-> 2,
      points_value |-> 16, unlock_requirement |-> 3],
     [mystery_id |-> "traditional_games_005", difficulty_level |-> 2,
      points_value |-> 14, unlock_requirement |-> 4],
     [mystery_id |-> "wedding_customs_006", difficulty_level |-> 3,
      points_value |-> 20, unlock_requirement |-> 5] >>

MysteryIds == {TELUGU_MYSTERIES[i].mystery_id : i \in DOMAIN TELUGU_MYSTERIES}

\* the registration form's inputs (username.strip() is non-empty)
Profiles ==
  { [username |-> "Asha", location |-> "Warangal",
     native_dialect |-> "Telangana Telugu", age_group |-> "26-35"],
    [username |-> "Ravi", location |-> "",
     native_dialect |-> "Coastal Andhra", age_group |-> "55+"] }

\* what each user types into the registration form
FormProfile(u) == CHOOSE p \in Profiles : (p.username = "Asha") <=> (u = "u1")

\* the connections that call the store concurrently
Conns == {"c1", "c2", "c3"}
NoConn == "none"

\* the points passed to update_user_points: the value of the concurrency test
\* and one the pages pass (andhra_ugadi_002 by voice)
PointsArgs == {10, 17}

\* the prompts the store's callers write responses for
StoreMysteries == {"telangana_bathukamma_001", "food_gongura_003"}

\* the number of files of an image upload: more than one, at most 5
UploadCounts == {2}

VOICE_BONUS == 5
IMAGE_BONUS == 3

Kinds == {"text", "voice", "image"}

\* db_manager.py:12-70 the tables init_database creates
TableNames == {"users", "text_responses", "voice_responses", "image_responses"}

\* no submission was refused by the last script run
NoRejection == [kind |-> "none"]

VARIABLES
  db,               \* app.py:157 the module-level db: TRUE a TeluguCorpusDB, FALSE None
  schema,           \* the tables the database file holds
  users,            \* table users: user_id -> row, or None when no row
  text_responses,   \* table text_responses: a bag of rows
  voice_responses,  \* table voice_responses: a bag of rows
  image_responses,  \* table image_responses: a bag of rows
  session,          \* st.session_state of the session that owns each user id
  hist,             \* per user, the submissions the page reported as solved
  rejected,         \* the inputs of the submission the last script run refused
  faults,           \* how many store or file operations have raised so far
  conn,             \* per connection, the store call in progress
  lock,             \* the connection that holds SQLite's write lock, or NoConn
  credited,         \* per user, the update_user_points calls that have returned
  users0,           \* the users table the concurrent callers started from
  started,          \* how many store calls have been started
  query             \* the engine's last inputs and what it returned

tables == <<users, text_responses, voice_responses, image_responses>>
appVars == <<db, schema, session, hist, rejected, faults>>
connVars == <<conn, lock, credited, users0, started>>

\* ---------------------------------------------------------- unlock engine
\* app.py:105 the filter of the list comprehension
\* variants of the unlock test: only the prompt whose requirement is met
\* exactly, and a requirement that has to be exceeded
UnlockedAtExactly(m, solved_count) == m.unlock_requirement = solved_count
UnlockedStrictly(m, solved_count) == m.unlock_requirement < solved_count

Unlocked(m, solved_count) == m.unlock_requirement <= solved_count

\* app.py:105 [m for m in self.mysteries if ...], left to right
RECURSIVE FilterUnlocked(_, _)
FilterUnlocked(mysteries, solved_count) ==
  IF mysteries = <<>> THEN <<>>
  ELSE IF Unlocked(Head(mysteries), solved_count)
       THEN <<Head(mysteries)>> \o FilterUnlocked(Tail(mysteries), solved_count)
       ELSE FilterUnlocked(Tail(mysteries), solved_count)

\* app.py:120-124 the loop of get_next_mystery
\* variants of the search: the first available prompt whether solved or not,
\* and the last unsolved one
FirstAvailable(available, solved_ids) ==
  IF available = <<>> THEN None ELSE Head(available)
LastUnsolved(available, solved_ids) ==
  LET open == {i \in DOMAIN available : available[i].mystery_id \notin solved_ids}
  IN  IF open = {} THEN None
      ELSE available[CHOOSE i \in open : \A j \in open : j <= i]

\* variant of the search: only the first available prompt is looked at
FirstIfUnsolved(available, solved_ids) ==
  IF available = <<>> THEN None
  ELSE IF Head(available).mystery_id \notin solved_ids THEN Head(available) ELSE None

RECURSIVE FirstUnsolved(_, _)
FirstUnsolved(available, solved_ids) ==
  IF available = <<>> THEN None
  ELSE IF Head(available).mystery_id \notin solved_ids THEN Head(available)
       ELSE FirstUnsolved(Tail(available), solved_ids)

\* db_manager.py get_user: the row, or None
get_user(user_id) == users[user_id]

\* MysteryManager.get_available_mysteries; readOk = FALSE: get_user raises
get_available_mysteries(user_id, readOk) ==
  IF ~db THEN <<TELUGU_MYSTERIES[1]>>
  ELSE IF ~readOk THEN <<TELUGU_MYSTERIES[1]>>
  ELSE LET user_data == get_user(user_id)
           solved_count == IF user_data # None THEN user_data.mysteries_solved ELSE 0
       IN  FilterUnlocked(TELUGU_MYSTERIES, solved_count)

\* SELECT DISTINCT mystery_id FROM text_responses WHERE user_id = ?
DistinctMysteryIds(user_id) ==
  {r.mystery_id : r \in {x \in BagToSet(text_responses) : x.user_id = user_id}}

\* variant of the read: a query that raises is not caught
get_solved_mystery_ids_unguarded(user_id, readOk) ==
  IF ~db THEN {} ELSE DistinctMysteryIds(user_id)

\* MysteryManager.get_solved_mystery_ids; readOk = FALSE: the query raises
get_solved_mystery_ids(user_id, readOk) ==
  IF ~db THEN {}
  ELSE IF ~readOk THEN {}
  ELSE DistinctMysteryIds(user_id)

\* variant of the search: the whole catalog is searched, unlocked or not
get_next_mystery_of_catalog(user_id, availOk, solvedOk) ==
  FirstUnsolved(TELUGU_MYSTERIES, get_solved_mystery_ids(user_id, solvedOk))

\* MysteryManager.get_next_mystery
get_next_mystery(user_id, availOk, solvedOk) ==
  LET available == get_available_mysteries(user_id, availOk)
  IN  IF available = <<>> THEN None
      ELSE FirstUnsolved(available, get_solved_mystery_ids(user_id, solvedOk))

\* ------------------------------------------------------ persistence store
\* variant of the statement: the table is created anew, whatever the file held
create_table(exists, rows, empty) == empty

\* db_manager.py:18-68 CREATE TABLE IF NOT EXISTS: a table the file holds keeps
\* its rows, a missing one is created empty
create_table_if_not_exists(exists, rows, empty) == IF exists THEN rows ELSE empty

\* the users table with no row
NoUsers == [u \in Users |-> None]

\* variant of the insert: location and native_dialect bound to each other's column
create_user_row_swapped(user_data) ==
  [username |-> user_data.username, location |-> user_data.native_dialect,
   native_dialect |-> user_data.location, age_group |-> user_data.age_group,
   total_points |-> 0, mysteries_solved |-> 0]

\* db_manager.py:76-86 INSERT OR REPLACE INTO users (user_id, username, location,
\* native_dialect, age_group): the row with that user_id is deleted and a new one
\* inserted; the columns not named take their DEFAULT (db_manager.py:25-26)
create_user_row(user_data) ==
  [username |-> user_data.username, location |-> user_data.location,
   native_dialect |-> user_data.native_dialect, age_group |-> user_data.age_group,
   total_points |-> 0, mysteries_solved |-> 0]

\* variant of the update: the points are added, the solved count is not
update_points_only(row, points) == [row EXCEPT !.total_points = @ + points]

\* db_manager.py:122-127 UPDATE users SET total_points = total_points + ?,
\* mysteries_solved = mysteries_solved + 1 WHERE user_id = ?
update_user_points_row(row, points) ==
  [row EXCEPT !.total_points = @ + points, !.mysteries_solved = @ + 1]

\* variant of the update: a row is made for a user id that has none
UsersAfterUpsert(tbl, user_id, points) ==
  IF tbl[user_id] = None
  THEN [tbl EXCEPT ![user_id] =
          update_user_points_row(create_user_row(FormProfile(user_id)), points)]
  ELSE [tbl EXCEPT ![user_id] = update_user_points_row(@, points)]

\* the users table after update_user_points: no row matches, no row changes
UsersAfterUpdate(tbl, user_id, points) ==
  IF tbl[user_id] = None THEN tbl
  ELSE [tbl EXCEPT ![user_id] = update_user_points_row(@, points)]

\* app.py:339, 386, 437 the prefix of response_text
Tag(kind) ==
  CASE kind = "text" -> "[TEXT]" [] kind = "voice" -> "[VOICE]" [] kind = "image" -> "[IMAGES]"

\* a row of text_responses (response_id is a fresh uuid4, the text is not modelled)
TextRow(user_id, mystery_id, kind) ==
  [user_id |-> user_id, mystery_id |-> mystery_id, tag |-> Tag(kind)]

\* a row of voice_responses or image_responses
MediaRow(user_id, mystery_id) == [user_id |-> user_id, mystery_id |-> mystery_id]

\* n copies of a row
Copies(row, n) == IF n = 0 THEN EmptyBag ELSE [x \in {row} |-> n]

\* variant of the count: the rows of the three response tables are added up
get_total_responses_all_tables ==
  BagCardinality(text_responses) + BagCardinality(voice_responses)
    + BagCardinality(image_responses)

\* db_manager.py:134 SELECT COUNT(*) FROM text_responses
get_total_responses == BagCardinality(text_responses)

\* db_manager.py:149 SELECT username, total_points, mysteries_solved, location
LeaderboardEntry(row) ==
  [username |-> row.username, total_points |-> row.total_points,
   mysteries_solved |-> row.mysteries_solved, location |-> row.location]

\* db_manager.py:151 WHERE total_points > 0
Ranked == {u \in DOMAIN users : users[u] # None /\ users[u].total_points > 0}

\* db_manager.py:152 ORDER BY total_points DESC: the orders of the ranked rows
\* the statement may produce; rows with equal points come in an order SQL does
\* not fix
RankOrders ==
  {o \in [1 .. Cardinality(Ranked) -> Ranked] :
     /\ \A i, j \in DOMAIN o : i # j => o[i] # o[j]
     /\ \A i, j \in DOMAIN o :
          i < j => users[o[i]].total_points >= users[o[j]].total_points}

\* variant of the query: the limit is not applied
Unlimited(rows, limit) == rows

\* db_manager.py:153 LIMIT ?: a negative limit is no limit in SQLite
Limited(rows, limit) ==
  IF limit < 0 \/ limit >= Len(rows) THEN rows ELSE SubSeq(rows, 1, limit)

\* db_manager.py:144-157 get_leaderboard: the lists it may return
get_leaderboard(limit) ==
  {Limited([i \in DOMAIN o |-> LeaderboardEntry(users[o[i]])], limit) : o \in RankOrders}

\* ------------------------------------------------------------ application
\* app.py:1371-1377 show_leaderboard_page: the lists leaderboard_data may hold
\* after the query; readOk = FALSE: db.get_leaderboard raises
leaderboard_data(readOk) ==
  IF db /\ readOk THEN get_leaderboard(20) ELSE {<<>>}

\* app.py:282-293 init_session_state
init_session_state ==
  [profile |-> None, total_points |-> 0, mysteries_solved |-> 0,
   user_data_loaded |-> FALSE]

\* variant of the load: the solved count is not taken from the row
load_user_data_points_only(s, user_id, readOk) ==
  IF db /\ ~s.user_data_loaded /\ readOk /\ get_user(user_id) # None
  THEN LET user_data == get_user(user_id)
       IN  [profile |-> [username |-> user_data.username,
                         location |-> user_data.location,
                         native_dialect |-> user_data.native_dialect,
                         age_group |-> user_data.age_group],
            total_points |-> user_data.total_points,
            mysteries_solved |-> s.mysteries_solved,
            user_data_loaded |-> TRUE]
  ELSE s

\* app.py:295-309 load_user_data, run at the start of every script run
load_user_data(s, user_id, readOk) ==
  IF db /\ ~s.user_data_loaded /\ readOk /\ get_user(user_id) # None
  THEN LET user_data == get_user(user_id)
       IN  [profile |-> [username |-> user_data.username,
                         location |-> user_data.location,
                         native_dialect |-> user_data.native_dialect,
                         age_group |-> user_data.age_group],
            total_points |-> user_data.total_points,
            mysteries_solved |-> user_data.mysteries_solved,
            user_data_loaded |-> TRUE]
  ELSE s

\* app.py:346-347, 738-739 (and the voice and image twins): the session counters
AddPoints(s, points) ==
  [s EXCEPT !.total_points = @ + points, !.mysteries_solved = @ + 1]

\* app.py:728, 938, 1110 the points of a submission
\* variant of the scoring: no modality bonus
PointsWithoutBonus(mystery, kind) == mystery.points_value
\* variant of the scoring: the voice and image bonuses exchanged
PointsBonusSwapped(mystery, kind) ==
  CASE kind = "text" -> mystery.points_value
    [] kind = "voice" -> mystery.points_value + IMAGE_BONUS
    [] kind = "image" -> mystery.points_value + VOICE_BONUS

PointsFor(mystery, kind) ==
  CASE kind = "text" -> mystery.points_value
    [] kind = "voice" -> mystery.points_value + VOICE_BONUS
    [] kind = "image" -> mystery.points_value + IMAGE_BONUS

\* The operations of a script run that may raise. Which of them raise is an
\* input of the step. A failed get_user (load_user_data, get_available_mysteries)
\* is drawn freely; MaxFaults bounds how many of the others raise in a behaviour.
FaultPoints == {"profile", "solved", "response", "score", "files"}

\* the sets of operations among `points` that may raise in this step: none is
\* called when db is None, and the score update is not reached when the
\* response write raised
FaultSets(points) ==
  {F \in SUBSET (IF db THEN points ELSE {}) :
     /\ Cardinality(F) <= MaxFaults - faults
     /\ ~({"response", "score"} \subseteq F)}

\* get_user is called by load_user_data only while the session is not loaded,
\* and by get_available_mysteries only when db is set
LoadChoices(u) == IF db /\ ~session[u].user_data_loaded THEN BOOLEAN ELSE {TRUE}
AvailChoices == IF db THEN BOOLEAN ELSE {TRUE}

Outcome(F) ==
  IF "response" \in F THEN "response_failed"
  ELSE IF "score" \in F THEN "score_failed" ELSE "ok"

\* the submissions reported as solved so far, over all users
RECURSIVE SumOver(_, _)
SumOver(f, S) ==
  IF S = {} THEN 0
  ELSE LET x == CHOOSE y \in S : TRUE IN f[x] + SumOver(f, S \ {x})
Submitted == SumOver([u \in Users |-> Len(hist[u])], Users)

\* app.py:581-594 the register button of show_home_page, with save_user_to_db
Register(u) ==
  \E p \in {FormProfile(u)}, loadOk \in LoadChoices(u), F \in FaultSets({"profile"}) :
    \E s \in {load_user_data(session[u], u, loadOk)},
       saved \in {db /\ "profile" \notin F} :
        /\ s.profile = None
        /\ faults' = faults + Cardinality(F)
        /\ session' = [session EXCEPT ![u] =
              [s EXCEPT !.profile = p,
                        !.user_data_loaded = IF saved THEN TRUE ELSE @]]
        /\ users' = IF saved THEN [users EXCEPT ![u] = create_user_row(p)] ELSE users
        /\ rejected' = NoRejection
        /\ UNCHANGED <<db, schema, text_responses, voice_responses, image_responses, hist>>
        /\ UNCHANGED <<connVars, query>>

\* whether save_*_to_db returns True: db is set and neither write raised
Saved(outcome) == db /\ outcome = "ok"

\* app.py:346-347, 395-396, 446-447: the counters move inside save_*_to_db
\* only after both writes went through
SessionAfterSave(s, points, outcome) ==
  IF Saved(outcome) THEN AddPoints(s, points) ELSE s

\* variant of the handler: the counters move only when the store saved
SessionOnlyWhenSaved(s, points, outcome) ==
  IF Saved(outcome) THEN AddPoints(s, points) ELSE s

\* app.py:732-741, 971-980, 1151-1160: on False the handler moves the counters
SessionAfterSubmit(s, points, outcome) ==
  LET s2 == SessionAfterSave(s, points, outcome)
  IN  IF Saved(outcome) THEN s2 ELSE AddPoints(s2, points)

\* variant of the text save: the score is updated first, the row written after
save_response_score_first(u, mystery_id, points, outcome) ==
  /\ users' = IF db /\ outcome # "score_failed"
       THEN UsersAfterUpdate(users, u, points) ELSE users
  /\ text_responses' = IF Saved(outcome)
       THEN text_responses (+) SetToBag({TextRow(u, mystery_id, "text")})
       ELSE text_responses
  /\ UNCHANGED <<voice_responses, image_responses>>

\* app.py:331-351 save_response_to_db: db.save_response commits the row in its
\* own connection, then db.update_user_points commits in another
save_response_to_db(u, mystery_id, points, outcome) ==
  /\ text_responses' = IF db /\ outcome # "response_failed"
       THEN text_responses (+) SetToBag({TextRow(u, mystery_id, "text")})
       ELSE text_responses
  /\ users' = IF Saved(outcome) THEN UsersAfterUpdate(users, u, points) ELSE users
  /\ UNCHANGED <<voice_responses, image_responses>>

\* variant of the voice save: no text row is written next to the voice row
save_voice_without_text_row(u, mystery_id, points, outcome) ==
  /\ voice_responses' = IF db /\ outcome # "response_failed"
       THEN voice_responses (+) SetToBag({MediaRow(u, mystery_id)})
       ELSE voice_responses
  /\ users' = IF Saved(outcome) THEN UsersAfterUpdate(users, u, points) ELSE users
  /\ UNCHANGED <<text_responses, image_responses>>

\* app.py:353-401 save_voice_response_to_db: the voice row and its text row
\* commit together (one connection), then db.update_user_points
save_voice_response_to_db(u, mystery_id, points, outcome) ==
  /\ voice_responses' = IF db /\ outcome # "response_failed"
       THEN voice_responses (+) SetToBag({MediaRow(u, mystery_id)})
       ELSE voice_responses
  /\ text_responses' = IF db /\ outcome # "response_failed"
       THEN text_responses (+) SetToBag({TextRow(u, mystery_id, "voice")})
       ELSE text_responses
  /\ users' = IF Saved(outcome) THEN UsersAfterUpdate(users, u, points) ELSE users
  /\ UNCHANGED image_responses

\* app.py:403-452 save_image_response_to_db: one image row per saved path and
\* the text row commit together, then db.update_user_points
save_image_response_to_db(u, mystery_id, points, n_paths, outcome) ==
  /\ image_responses' = IF db /\ outcome # "response_failed"
       THEN image_responses (+) Copies(MediaRow(u, mystery_id), n_paths)
       ELSE image_responses
  /\ text_responses' = IF db /\ outcome # "response_failed"
       THEN text_responses (+) SetToBag({TextRow(u, mystery_id, "image")})
       ELSE text_responses
  /\ users' = IF Saved(outcome) THEN UsersAfterUpdate(users, u, points) ELSE users
  /\ UNCHANGED voice_responses

\* the record of a submission the page reported as solved, with its form inputs
Accept(u, s, mystery, kind, input, outcome) ==
  LET points == PointsFor(mystery, kind)
  IN  /\ session' = [session EXCEPT ![u] = SessionAfterSubmit(s, points, outcome)]
      /\ hist' = [hist EXCEPT ![u] = Append(@,
           [mystery_id |-> mystery.mystery_id, kind |-> kind, input |-> input,
            outcome |-> IF db THEN outcome ELSE "no_db"])]
      /\ rejected' = NoRejection
      /\ UNCHANGED <<db, schema, connVars, query>>

\* variant of the refusal: the run counts the prompt as solved in the session
RejectAndCount(u, s, kind, input) ==
  /\ session' = [session EXCEPT ![u] = AddPoints(s, 0)]
  /\ rejected' = [kind |-> kind, input |-> input]
  /\ UNCHANGED <<db, schema, hist, tables, connVars, query>>

\* a script run that shows a warning and writes nothing but what load_user_data set
Reject(u, s, kind, input) ==
  /\ session' = [session EXCEPT ![u] = s]
  /\ rejected' = [kind |-> kind, input |-> input]
  /\ UNCHANGED <<db, schema, hist, tables, connVars, query>>

MIN_WORDS == 50

\* variant of the word check: the minimum itself is not enough
meets_minimum_strictly(word_count) == word_count > MIN_WORDS

\* app.py:719 if word_count >= 50
meets_minimum(word_count) == word_count >= MIN_WORDS
WordCounts == {MIN_WORDS - 1, MIN_WORDS}

\* app.py:661-744 show_mystery_page, text tab: the submit button is drawn only
\* when word_count >= 50, a warning otherwise; an empty text area draws neither
\* and the run does nothing
TextResponse(u) ==
  /\ \E word_count \in WordCounts, loadOk \in LoadChoices(u), availOk \in AvailChoices :
       \E F \in FaultSets(IF meets_minimum(word_count)
                          THEN {"solved", "response", "score"}
                          ELSE {"solved"}) :
         \E s \in {load_user_data(session[u], u, loadOk)},
            current_mystery \in {get_next_mystery(u, availOk, "solved" \notin F)} :
           /\ s.profile # None
           /\ current_mystery # None
           /\ faults' = faults + Cardinality(F)
           /\ IF meets_minimum(word_count)
              THEN /\ save_response_to_db(u, current_mystery.mystery_id,
                         PointsFor(current_mystery, "text"), Outcome(F))
                   /\ Accept(u, s, current_mystery, "text",
                         [word_count |-> word_count], Outcome(F))
              ELSE Reject(u, s, "text", [word_count |-> word_count])

\* app.py:746-980 show_mystery_page, voice tab: the submit button is drawn once
\* audio_recorded is set; nothing else is required
VoiceResponse(u) ==
  /\ \E loadOk \in LoadChoices(u), availOk \in AvailChoices, F \in FaultSets({"solved", "response", "score"}) :
       \E s \in {load_user_data(session[u], u, loadOk)},
          current_mystery \in {get_next_mystery(u, availOk, "solved" \notin F)} :
           /\ s.profile # None
           /\ current_mystery # None
           /\ faults' = faults + Cardinality(F)
           /\ save_voice_response_to_db(u, current_mystery.mystery_id,
                 PointsFor(current_mystery, "voice"), Outcome(F))
           /\ Accept(u, s, current_mystery, "voice",
                 [audio_recorded |-> TRUE], Outcome(F))

Flags == {"permission", "authentic", "privacy", "quality"}

\* variant of the gate: the confirmations are not looked at
can_submit_unconfirmed(described, flags) == described

\* app.py:1103-1106 can_submit
can_submit(described, flags) == described /\ flags = Flags

\* the checkbox combinations tried: all set, one missing, none
FlagChoices == {Flags, Flags \ {"permission"}, {}}

\* app.py:1113-1127 the possible lengths of saved_image_paths: a file write that
\* raises ends the loop, keeping the paths saved before it
saved_image_paths(n_files, filesOk) ==
  IF filesOk THEN {n_files} ELSE 0 .. (n_files - 1)

\* app.py:982-1172 show_mystery_page, image tab
ImageResponse(u) ==
  /\ \E described \in BOOLEAN, flags \in FlagChoices, n_files \in UploadCounts,
        loadOk \in LoadChoices(u), availOk \in AvailChoices :
       \E F \in FaultSets(IF can_submit(described, flags)
                          THEN {"solved", "files", "response", "score"}
                          ELSE {"solved"}) :
         \E s \in {load_user_data(session[u], u, loadOk)},
            current_mystery \in {get_next_mystery(u, availOk, "solved" \notin F)},
            n_paths \in saved_image_paths(n_files, "files" \notin F) :
           /\ s.profile # None
           /\ current_mystery # None
           /\ faults' = faults + Cardinality(F)
           /\ IF can_submit(described, flags)
              THEN /\ save_image_response_to_db(u, current_mystery.mystery_id,
                         PointsFor(current_mystery, "image"), n_paths, Outcome(F))
                   /\ Accept(u, s, current_mystery, "image",
                         [described |-> described, flags |-> flags], Outcome(F))
              ELSE Reject(u, s, "image", [described |-> described, flags |-> flags])

\* the three submissions while the behaviour is within its bound
SubmitText(u) == Submitted < MaxSubmits /\ TextResponse(u)
SubmitVoice(u) == Submitted < MaxSubmits /\ VoiceResponse(u)
SubmitImage(u) == Submitted < MaxSubmits /\ ImageResponse(u)

\* ------------------------------------------------- the first run's inputs
Idle == [op |-> "idle"]

\* no store call in progress
ConnIdle ==
  /\ conn = [c \in Conns |-> Idle]
  /\ lock = NoConn
  /\ credited = [u \in Users |-> [points |-> 0, calls |-> 0]]
  /\ users0 = [u \in Users |-> None]
  /\ started = 0

\* the engine applied to a solved count and a solved set
Ask(solved_count, solved_ids) ==
  LET available == FilterUnlocked(TELUGU_MYSTERIES, solved_count)
  IN  [solved_count |-> solved_count, solved_ids |-> solved_ids,
       available |-> available,
       next |-> IF available = <<>> THEN None
                ELSE FirstUnsolved(available, solved_ids)]

vars == <<db, schema, users, text_responses, voice_responses, image_responses,
          session, hist, rejected, faults, conn, lock, credited, users0, started,
          query>>

Init ==
  /\ db \in BOOLEAN
  /\ schema = (IF db THEN TableNames ELSE {})
  /\ users = [u \in Users |-> None]
  /\ text_responses = EmptyBag
  /\ voice_responses = EmptyBag
  /\ image_responses = EmptyBag
  /\ session = [u \in Users |-> init_session_state]
  /\ hist = [u \in Users |-> <<>>]
  /\ rejected = NoRejection
  /\ faults = 0
  /\ ConnIdle
  /\ query = Ask(0, {})

Next ==
  \E u \in Users :
    \/ Register(u)
    \/ SubmitText(u)
    \/ SubmitVoice(u)
    \/ SubmitImage(u)

Spec == Init /\ [][Next]_vars

\* ------------------------------------- the store under concurrent callers
\* Each method of TeluguCorpusDB opens its own connection (sqlite3.connect),
\* executes one statement and commits. A writing statement takes SQLite's write
\* lock before it reads, and holds it until COMMIT; a caller that finds the lock
\* taken waits for it.

\* db_manager.py:122 (and 76, 105) cursor.execute of a writing statement: it
\* runs once no other connection holds the write lock
\* variant of the locking: a statement never waits for the write lock
NoWriteLock(c) == TRUE

WriteLockFree(c) == lock = NoConn

\* db_manager.py:72-75 create_user is called and connects
CallCreateUser(c) ==
  \E u \in Users, p \in Profiles :
    /\ conn[c] = Idle
    /\ started < MaxCalls
    /\ conn' = [conn EXCEPT ![c] =
         [op |-> "create_user", user_id |-> u, arg |-> p, pc |-> "connected"]]
    /\ started' = started + 1
    /\ UNCHANGED <<tables, appVars, lock, credited, users0, query>>

\* db_manager.py:100-104 save_response is called and connects
CallSaveResponse(c) ==
  \E u \in Users, m \in StoreMysteries :
    /\ conn[c] = Idle
    /\ started < MaxCalls
    /\ conn' = [conn EXCEPT ![c] =
         [op |-> "save_response", user_id |-> u, arg |-> m, pc |-> "connected"]]
    /\ started' = started + 1
    /\ UNCHANGED <<tables, appVars, lock, credited, users0, query>>

\* db_manager.py:118-121 update_user_points is called and connects
CallUpdateUserPoints(c) ==
  \E u \in Users, points \in PointsArgs :
    /\ conn[c] = Idle
    /\ started < MaxCalls
    /\ conn' = [conn EXCEPT ![c] =
         [op |-> "update_user_points", user_id |-> u, arg |-> points,
          pc |-> "connected"]]
    /\ started' = started + 1
    /\ UNCHANGED <<tables, appVars, lock, credited, users0, query>>

\* the users row a statement leaves for its user_id, computed from the table
\* as the statement reads it
StatementRow(call) ==
  CASE call.op = "create_user" -> create_user_row(call.arg)
    [] call.op = "update_user_points" ->
         IF users[call.user_id] = None THEN None
         ELSE update_user_points_row(users[call.user_id], call.arg)
    [] OTHER -> users[call.user_id]

\* db_manager.py:76-86, 105-115, 122-127 cursor.execute: the statement runs in
\* the connection's transaction, not yet visible to the others
Execute(c) ==
  /\ conn[c] # Idle
  /\ conn[c].pc = "connected"
  /\ WriteLockFree(c)
  /\ lock' = c
  /\ conn' = [conn EXCEPT ![c] =
       [op |-> @.op, user_id |-> @.user_id, arg |-> @.arg, pc |-> "executed",
        row |-> StatementRow(@)]]
  /\ UNCHANGED <<tables, appVars, credited, users0, started, query>>

\* db_manager.py:87, 116, 128 conn.commit(): the transaction's writes become
\* the stored state and the call returns
Commit(c) ==
  /\ conn[c] # Idle
  /\ conn[c].pc = "executed"
  /\ LET call == conn[c]
     IN  /\ users' = IF call.op = "save_response" THEN users
                      ELSE [users EXCEPT ![call.user_id] = call.row]
         /\ text_responses' = IF call.op = "save_response"
              THEN text_responses (+) SetToBag({TextRow(call.user_id, call.arg, "text")})
              ELSE text_responses
         /\ credited' = IF call.op = "update_user_points"
              THEN [credited EXCEPT ![call.user_id] =
                      [points |-> @.points + call.arg, calls |-> @.calls + 1]]
              ELSE credited
  /\ lock' = NoConn
  /\ conn' = [conn EXCEPT ![c] = Idle]
  /\ UNCHANGED <<voice_responses, image_responses, appVars, users0, started, query>>

\* db_manager.py:12-70 init_database on a new file: the four tables, empty
StoreInit ==
  /\ db = TRUE
  /\ schema = TableNames
  /\ users = [u \in Users |-> None]
  /\ text_responses = EmptyBag
  /\ voice_responses = EmptyBag
  /\ image_responses = EmptyBag
  /\ session = [u \in Users |-> init_session_state]
  /\ hist = [u \in Users |-> <<>>]
  /\ rejected = NoRejection
  /\ faults = 0
  /\ ConnIdle
  /\ query = Ask(0, {})

StoreNext ==
  \E c \in Conns :
    \/ CallCreateUser(c)
    \/ CallSaveResponse(c)
    \/ CallUpdateUserPoints(c)
    \/ Execute(c)
    \/ Commit(c)

StoreSpec == StoreInit /\ [][StoreNext]_vars

\* the rows the concurrent increments may start from: none, a new profile, a
\* profile that has solved the first two prompts by text
StartRows(u) ==
  {None, create_user_row(FormProfile(u)),
   [create_user_row(FormProfile(u)) EXCEPT !.total_points = 27, !.mysteries_solved = 2]}

ConcInit ==
  /\ db = TRUE
  /\ schema = TableNames
  /\ users \in [Users -> UNION {StartRows(u) : u \in Users}]
  /\ \A u \in Users : users[u] \in StartRows(u)
  /\ text_responses = EmptyBag
  /\ voice_responses = EmptyBag
  /\ image_responses = EmptyBag
  /\ session = [u \in Users |-> init_session_state]
  /\ hist = [u \in Users |-> <<>>]
  /\ rejected = NoRejection
  /\ faults = 0
  /\ conn = [c \in Conns |-> Idle]
  /\ lock = NoConn
  /\ credited = [u \in Users |-> [points |-> 0, calls |-> 0]]
  /\ users0 = users
  /\ started = 0
  /\ query = Ask(0, {})

ConcNext ==
  \E c \in Conns :
    \/ CallUpdateUserPoints(c)
    \/ Execute(c)
    \/ Commit(c)

ConcSpec == ConcInit /\ [][ConcNext]_vars

\* ------------------------------------------- the store opened again and again
\* db_manager.py:7-10, 12-70 TeluguCorpusDB(): the constructor runs
\* init_database, four CREATE TABLE IF NOT EXISTS statements and a commit; the
\* call leaves in query what it found in the file
InitDatabase(c) ==
  /\ conn[c] = Idle
  /\ started < MaxCalls
  /\ started' = started + 1
  /\ schema' = schema \cup TableNames
  /\ users' = create_table_if_not_exists("users" \in schema, users, NoUsers)
  /\ text_responses' =
       create_table_if_not_exists("text_responses" \in schema, text_responses, EmptyBag)
  /\ voice_responses' =
       create_table_if_not_exists("voice_responses" \in schema, voice_responses, EmptyBag)
  /\ image_responses' =
       create_table_if_not_exists("image_responses" \in schema, image_responses, EmptyBag)
  /\ query' = [op |-> "init_database", schema |-> schema,
               user_rows |-> Cardinality({u \in Users : users[u] # None}),
               response_rows |-> BagCardinality(text_responses)]
  /\ UNCHANGED <<db, session, hist, rejected, faults, conn, lock, credited, users0>>

\* db_manager.py:18-68 the tables in the order init_database creates them
TableOrder == <<"users", "text_responses", "voice_responses", "image_responses">>

\* the tables a file may hold before a start: none, all four, or the first few
\* when an earlier start was interrupted between two statements
StartSchemas == {{TableOrder[i] : i \in 1 .. n} : n \in 0 .. Len(TableOrder)}

\* a database file as an earlier start may have left it; the tables it holds
\* are empty, since rows are written only through an object whose constructor
\* has returned
SchemaInit ==
  /\ db = TRUE
  /\ schema \in StartSchemas
  /\ users = NoUsers
  /\ text_responses = EmptyBag
  /\ voice_responses = EmptyBag
  /\ image_responses = EmptyBag
  /\ session = [u \in Users |-> init_session_state]
  /\ hist = [u \in Users |-> <<>>]
  /\ rejected = NoRejection
  /\ faults = 0
  /\ ConnIdle
  /\ query = Ask(0, {})

\* the methods are called on an object whose constructor has returned
SchemaNext ==
  \E c \in Conns :
    \/ InitDatabase(c)
    \/ schema = TableNames /\ CallCreateUser(c)
    \/ schema = TableNames /\ CallSaveResponse(c)
    \/ schema = TableNames /\ CallUpdateUserPoints(c)
    \/ Execute(c)
    \/ Commit(c)

SchemaSpec == SchemaInit /\ [][SchemaNext]_vars

\* ------------------------------------------- one user through the catalog
\* one session that registers and submits again and again while no store
\* write and no solved-set read raises; the submissions of a session are
\* bounded by MaxJourney, one more than the catalog holds
MaxJourney == 7
JourneyUsers == {"u1"}

JourneyInit ==
  /\ db \in BOOLEAN
  /\ schema = (IF db THEN TableNames ELSE {})
  /\ users = NoUsers
  /\ text_responses = EmptyBag
  /\ voice_responses = EmptyBag
  /\ image_responses = EmptyBag
  /\ session = [u \in Users |-> init_session_state]
  /\ hist = [u \in Users |-> <<>>]
  /\ rejected = NoRejection
  /\ faults = MaxFaults
  /\ ConnIdle
  /\ query = Ask(0, {})

JourneyNext ==
  \E u \in JourneyUsers :
    \/ Register(u)
    \/ Len(hist[u]) < MaxJourney /\ TextResponse(u)
    \/ Len(hist[u]) < MaxJourney /\ VoiceResponse(u)
    \/ Len(hist[u]) < MaxJourney /\ ImageResponse(u)

JourneySpec == JourneyInit /\ [][JourneyNext]_vars

\* a script run of the session that reports a submission as solved
AcceptedSubmission ==
  \E u \in JourneyUsers :
    /\ Len(hist[u]) < MaxJourney
    /\ TextResponse(u) \/ VoiceResponse(u) \/ ImageResponse(u)
    /\ hist'[u] # hist[u]

\* the store is present and the user keeps submitting responses the page accepts
JourneyLiveInit == JourneyInit /\ db = TRUE
JourneyLiveSpec ==
  JourneyLiveInit /\ [][JourneyNext]_vars /\ WF_vars(AcceptedSubmission)

\* ------------------------------------------------- the engine on any input
\* MysteryManager applied to a solved count and a solved set
AskEngine ==
  \E solved_count \in 0..MaxSolvedCount, solved_ids \in SUBSET MysteryIds :
    /\ query' = Ask(solved_count, solved_ids)
    /\ UNCHANGED <<tables, appVars, connVars>>

EngineInit ==
  /\ db = TRUE
  /\ schema = TableNames
  /\ users = [u \in Users |-> None]
  /\ text_responses = EmptyBag
  /\ voice_responses = EmptyBag
  /\ image_responses = EmptyBag
  /\ session = [u \in Users |-> init_session_state]
  /\ hist = [u \in Users |-> <<>>]
  /\ rejected = NoRejection
  /\ faults = 0
  /\ ConnIdle
  /\ \E solved_count \in 0..MaxSolvedCount, solved_ids \in SUBSET MysteryIds :
       query = Ask(solved_count, solved_ids)

EngineSpec == EngineInit /\ [][AskEngine]_vars

\* ------------------------------------------- the leaderboard on any table
MaxLimit == 3
BoardUsers == {"u1", "u2", "u3"}
BoardPoints == {0, 10, 30, 50}

\* a users row of the given name with the given points
BoardRow(u, points) ==
  [create_user_row([username |-> u, location |-> "", native_dialect |-> "",
                    age_group |-> ""])
     EXCEPT !.total_points = points, !.mysteries_solved = IF points > 0 THEN 1 ELSE 0]

\* get_leaderboard applied to a limit: the limit and one list it may return
Boards(limit) == {[limit |-> limit, board |-> b] : b \in get_leaderboard(limit)}

AskLeaderboard ==
  \E limit \in 0 .. MaxLimit :
    /\ query' \in Boards(limit)
    /\ UNCHANGED <<tables, appVars, connVars>>

BoardInit ==
  /\ db = TRUE
  /\ schema = TableNames
  /\ users \in [BoardUsers -> {None} \cup {BoardRow(u, p) : u \in BoardUsers, p \in BoardPoints}]
  /\ \A u \in BoardUsers : users[u] # None => users[u].username = u
  /\ text_responses = EmptyBag
  /\ voice_responses = EmptyBag
  /\ image_responses = EmptyBag
  /\ session = [u \in Users |-> init_session_state]
  /\ hist = [u \in Users |-> <<>>]
  /\ rejected = NoRejection
  /\ faults = 0
  /\ ConnIdle
  /\ \E limit \in 0 .. MaxLimit : query \in Boards(limit)

BoardSpec == BoardInit /\ [][AskLeaderboard]_vars

\* ============================================================ properties
Range(seq) == {seq[i] : i \in DOMAIN seq}
CatalogIndex(mystery_id) ==
  CHOOSE i \in DOMAIN TELUGU_MYSTERIES : TELUGU_MYSTERIES[i].mystery_id = mystery_id
Least(S) == CHOOSE i \in S : \A j \in S : i <= j

\* the prompts a user has a response row for, in any of the three tables
RespondedMysteries(u) ==
  {r.mystery_id : r \in {x \in BagToSet(text_responses) \cup BagToSet(voice_responses)
                               \cup BagToSet(image_responses) : x.user_id = u}}

\* the modality bonus as the specification states it
SpecBonus(kind) == CASE kind = "text" -> 0 [] kind = "image" -> 3 [] kind = "voice" -> 5

RECURSIVE ExpectedPoints(_)
ExpectedPoints(h) ==
  IF h = <<>> THEN 0
  ELSE TELUGU_MYSTERIES[CatalogIndex(Head(h).mystery_id)].points_value
       + SpecBonus(Head(h).kind) + ExpectedPoints(Tail(h))

DistinctPrompts(h) == Cardinality({h[i].mystery_id : i \in DOMAIN h}) = Len(h)
AllStored(h) == \A i \in DOMAIN h : h[i].outcome = "ok"
KindsOf(h) == {h[i].kind : i \in DOMAIN h}

\* show_all_mysteries_page (app.py:1212-1222): the status shown for a prompt
Status(u, mystery) ==
  IF mystery.mystery_id \in get_solved_mystery_ids(u, TRUE) THEN "Solved"
  ELSE IF mystery \in Range(get_available_mysteries(u, TRUE)) THEN "Available"
  ELSE "Locked"

\* ---- C1 (StoreSpec)
\* C1: a create_user call for a user id that already has a row leaves that
\* row's total_points and mysteries_solved as they were.
C1_CreateUserKeepsScore ==
  [][\A c \in Conns :
       ( /\ conn[c].op = "create_user"
         /\ conn[c].pc = "executed"
         /\ conn'[c] = Idle
         /\ users[conn[c].user_id] # None )
       => /\ users'[conn[c].user_id].total_points = users[conn[c].user_id].total_points
          /\ users'[conn[c].user_id].mysteries_solved
               = users[conn[c].user_id].mysteries_solved]_vars

\* ---- C2 (Spec)
\* C2: in every reachable state, for every user with a stored row,
\* mysteries_solved equals the number of distinct prompts the user has a
\* response row for.
C2_SolvedCountIsDistinctResponses ==
  \A u \in Users :
    users[u] # None => users[u].mysteries_solved = Cardinality(RespondedMysteries(u))

C4_NoLostUpdate ==
  \A u \in Users :
    IF users0[u] = None THEN users[u] = None
    ELSE /\ users[u] # None
         /\ users[u].total_points = users0[u].total_points + credited[u].points
         /\ users[u].mysteries_solved = users0[u].mysteries_solved + credited[u].calls

\* two increments of one user have returned while a third call on that user
\* waits for the write lock
C4_Witness ==
  \E u \in Users, c \in Conns :
    /\ users[u] # None
    /\ credited[u].calls = 2
    /\ conn[c].op = "update_user_points" /\ conn[c].user_id = u
    /\ conn[c].pc = "connected"

\* ---- C5 (StoreSpec)
\* C5: for every (user, prompt) the status only moves forward: a Solved prompt
\* stays Solved and an Available prompt is never Locked again.
C5_StatusOnlyForward ==
  [][\A u \in Users, i \in DOMAIN TELUGU_MYSTERIES :
       /\ Status(u, TELUGU_MYSTERIES[i]) = "Solved"
            => Status(u, TELUGU_MYSTERIES[i])' = "Solved"
       /\ Status(u, TELUGU_MYSTERIES[i]) = "Available"
            => Status(u, TELUGU_MYSTERIES[i])' # "Locked"]_vars

\* ---- C6 (StoreSpec)
\* C6: total_points and mysteries_solved of every stored row are non-negative
\* and never decrease.
C6_ScoreNeverDecreases ==
  [][\A u \in Users :
       users'[u] # None
       => /\ users'[u].total_points >= 0 /\ users'[u].mysteries_solved >= 0
          /\ users[u] # None
               => /\ users'[u].total_points >= users[u].total_points
                  /\ users'[u].mysteries_solved >= users[u].mysteries_solved]_vars

\* ---- C7 (EngineSpec)
\* C7: when the solved count does not decrease from one query to the next, every
\* prompt available before is available after.
C7_AvailableGrows ==
  [][query.solved_count <= query'.solved_count
       => Range(query.available) \subseteq Range(query'.available)]_vars

\* a query that unlocks some prompts and not all
C7_Witness ==
  /\ query.solved_count = 3
  /\ Len(query.available) = 4

C9_AvailableIsThresholdFilter ==
  /\ Range(query.available)
       = {TELUGU_MYSTERIES[i] : i \in {j \in DOMAIN TELUGU_MYSTERIES :
             TELUGU_MYSTERIES[j].unlock_requirement <= query.solved_count}}
  /\ \A i, j \in DOMAIN query.available :
       i < j => CatalogIndex(query.available[i].mystery_id)
                  < CatalogIndex(query.available[j].mystery_id)

\* a query whose threshold is met exactly by the last prompt it unlocks
C9_Witness ==
  /\ query.solved_count = 2
  /\ Len(query.available) = 3
  /\ query.available[3].unlock_requirement = 2

\* ---- C10 (EngineSpec)
\* C10: the next prompt is the first of the catalog that is unlocked and not in
\* the solved set, and None exactly when there is no such prompt.
C10_NextIsFirstUnsolvedAvailable ==
  LET open == {i \in DOMAIN TELUGU_MYSTERIES :
                 /\ TELUGU_MYSTERIES[i].unlock_requirement <= query.solved_count
                 /\ TELUGU_MYSTERIES[i].mystery_id \notin query.solved_ids}
  IN  IF open = {} THEN query.next = None
      ELSE query.next = TELUGU_MYSTERIES[Least(open)]

\* the first unlocked prompts are solved and a later unlocked one is returned
C10_Witness ==
  /\ query.solved_ids = {"telangana_bathukamma_001", "andhra_ugadi_002",
                         "wedding_customs_006"}
  /\ query.solved_count = 3
  /\ query.next # None
  /\ query.next.mystery_id = "food_gongura_003"

\* the submission of user u the step reported as solved
Accepted(u) == hist'[u] # hist[u]
LastOf(h) == h[Len(h)]
PointsValueOf(mystery_id) == TELUGU_MYSTERIES[CatalogIndex(mystery_id)].points_value

\* ---- C11 (Spec)
\* C11: a text submission is reported as solved only with at least 50 words and
\* refused only with fewer: every text submission in the history has 50 words or
\* more, and a refused one has 49 or fewer.
C11_AcceptedIffFiftyWords ==
  /\ \A u \in Users : \A i \in DOMAIN hist[u] :
       hist[u][i].kind = "text" => hist[u][i].input.word_count >= 50
  /\ rejected.kind = "text" => rejected.input.word_count <= 49

\* a user had a 50-word response accepted and then a 49-word response refused
C11_Witness ==
  /\ rejected.kind = "text" /\ rejected.input.word_count = 49
  /\ \E u \in Users : \E i \in DOMAIN hist[u] :
       hist[u][i].kind = "text" /\ hist[u][i].input.word_count = 50

NothingChanges ==
  /\ UNCHANGED <<users, text_responses, voice_responses, image_responses, hist>>
  /\ \A u \in Users :
       /\ session'[u].total_points = session[u].total_points
       /\ session'[u].mysteries_solved = session[u].mysteries_solved

\* ---- C13 (Spec)
\* C13: an image submission with no confirmation set is never reported as
\* solved, with or without a description, and the step that refuses it writes no
\* row and awards no points.
C13_UnconfirmedImageRejected ==
  [][/\ \A u \in Users :
          (Accepted(u) /\ LastOf(hist'[u]).kind = "image")
          => LastOf(hist'[u]).input.flags # {}
     /\ (rejected'.kind = "image" /\ rejected'.input.flags = {}) => NothingChanges]_vars

\* an image with a description and no confirmation was refused while the store
\* held responses
C13_Witness ==
  /\ rejected.kind = "image"
  /\ rejected.input.flags = {} /\ rejected.input.described
  /\ text_responses # EmptyBag

\* ---- C15 (Spec)
\* C15: a refused text submission has fewer than 50 words, and the step that
\* refuses it writes no row, leaves the stored and the session counters as they
\* were, and leaves every user's solved set as it was.
C15_ShortTextChangesNothing ==
  [][rejected'.kind = "text"
       => /\ rejected'.input.word_count < 50
          /\ NothingChanges
          /\ \A u \in Users :
               get_solved_mystery_ids(u, TRUE)' = get_solved_mystery_ids(u, TRUE)]_vars

\* a 49-word response was refused for a user who has solved a prompt
C15_Witness ==
  /\ rejected.kind = "text" /\ rejected.input.word_count = 49
  /\ \E u \in Users : session[u].mysteries_solved = 1 /\ Len(hist[u]) = 1

OutcomesOf(h) == {h[i].outcome : i \in DOMAIN h}

\* ---- C14 (Spec)
\* C14: whatever became of the store writes, the session counters count every
\* submission reported as solved once: mysteries_solved is their number and
\* total_points the sum of their points_value plus bonus.
C14_SessionCountsEveryAccepted ==
  \A u \in Users :
    /\ session[u].mysteries_solved = Len(hist[u])
    /\ session[u].total_points = ExpectedPoints(hist[u])

\* a user with a stored submission and one whose store write raised
C14_Witness ==
  \E u \in Users :
    /\ "ok" \in OutcomesOf(hist[u])
    /\ OutcomesOf(hist[u]) \cap {"response_failed", "score_failed"} # {}
    /\ session[u].mysteries_solved = 2

\* a user of an application without a store, with submissions of two kinds
C14_WitnessNoStore ==
  \E u \in Users :
    /\ ~db /\ OutcomesOf(hist[u]) = {"no_db"}
    /\ Cardinality(KindsOf(hist[u])) = 2 /\ session[u].mysteries_solved = 2

C17_MediaLeavesTextRow ==
  \A u \in Users : \A i \in DOMAIN hist[u] :
    (hist[u][i].kind \in {"voice", "image"} /\ hist[u][i].outcome = "ok")
    => /\ \E r \in BagToSet(text_responses) :
            /\ r.user_id = u /\ r.mystery_id = hist[u][i].mystery_id
            /\ r.tag = (IF hist[u][i].kind = "voice" THEN "[VOICE]" ELSE "[IMAGES]")
       /\ hist[u][i].mystery_id \in get_solved_mystery_ids(u, TRUE)

\* a user with a stored voice and a stored image submission and no text one
C17_Witness ==
  \E u \in Users :
    /\ KindsOf(hist[u]) = {"voice", "image"} /\ AllStored(hist[u])
    /\ Cardinality(get_solved_mystery_ids(u, TRUE)) = 2

\* ---- C18 (StoreSpec)
\* C18: when a create_user call returns, get_user of its user id gives a row
\* whose username, location, native_dialect and age_group are the submitted
\* ones; and get_user of an id gives a row only once a create_user call for
\* that id has returned.
C18_ProfileRoundTrip ==
  [][/\ \A c \in Conns, u \in Users :
          ( /\ conn[c].op = "create_user" /\ conn[c].user_id = u
            /\ conn[c].pc = "executed" /\ conn'[c] = Idle )
          => LET got == get_user(u)'
                 sent == conn[c].arg
             IN  /\ got # None
                 /\ got.username = sent.username
                 /\ got.location = sent.location
                 /\ got.native_dialect = sent.native_dialect
                 /\ got.age_group = sent.age_group
     /\ \A u \in Users :
          (get_user(u) = None /\ get_user(u)' # None)
          => \E c \in Conns :
               /\ conn[c].op = "create_user" /\ conn[c].user_id = u
               /\ conn[c].pc = "executed" /\ conn'[c] = Idle]_vars

\* one user was created with an empty location and has been read back, the
\* other was never created
C18_Witness ==
  /\ get_user("u1") # None
  /\ get_user("u1").username = "Ravi" /\ get_user("u1").location = ""
  /\ get_user("u1").native_dialect = "Coastal Andhra"
  /\ get_user("u2") = None
  /\ started = MaxCalls

\* ---- C19 (BoardSpec)
\* C19: whatever the users table, get_leaderboard(limit) returns no more than
\* limit entries and their total_points never rise along the list; with points
\* 10, 50 and 30 stored and limit 3 the points come back as 50, 30, 10.
C19_LeaderboardSortedAndLimited ==
  /\ Len(query.board) <= query.limit
  /\ \A i, j \in DOMAIN query.board :
       i < j => query.board[i].total_points >= query.board[j].total_points
  /\ ( /\ query.limit = 3
       /\ \A u \in BoardUsers : users[u] # None
       /\ users["u1"].total_points = 10
       /\ users["u2"].total_points = 50
       /\ users["u3"].total_points = 30 )
     => [i \in DOMAIN query.board |-> query.board[i].total_points] = <<50, 30, 10>>

\* the three users with points 10, 50 and 30, asked for three entries
C19_Witness ==
  /\ \A u \in BoardUsers : users[u] # None
  /\ users["u1"].total_points = 10
  /\ users["u2"].total_points = 50
  /\ users["u3"].total_points = 30
  /\ query.limit = 3 /\ Len(query.board) = 3

\* three ranked users, two of them level, cut to two entries
C19_WitnessCut ==
  /\ Cardinality(Ranked) = 3
  /\ query.limit = 2 /\ Len(query.board) = 2
  /\ query.board[1].total_points = query.board[2].total_points

\* ---- C20 (ConcSpec)
\* C20: every step that changes a users row is the commit of one
\* update_user_points call for that user and changes total_points by the points
\* of the call and mysteries_solved by 1 together, nothing else in the row, and
\* no other user's row.
C20_IncrementIsAtomic ==
  [][\A u \in Users :
       users'[u] # users[u]
       => /\ users[u] # None
          /\ \E c \in Conns :
               /\ conn[c].op = "update_user_points" /\ conn[c].user_id = u
               /\ conn[c].pc = "executed" /\ conn'[c] = Idle
               /\ users'[u] = [users[u] EXCEPT
                                 !.total_points = @ + conn[c].arg,
                                 !.mysteries_solved = @ + 1]
          /\ \A v \in Users \ {u} : users'[v] = users[v]]_vars

\* one user's row has taken an increment of 10, the other user's row is as it
\* started, and another increment is inside its transaction
C20_Witness ==
  /\ users0["u1"] # None /\ users0["u2"] # None
  /\ users["u1"].total_points = users0["u1"].total_points + 10
  /\ users["u1"].mysteries_solved = users0["u1"].mysteries_solved + 1
  /\ users["u2"] = users0["u2"]
  /\ \E c \in Conns : conn[c].op = "update_user_points" /\ conn[c].pc = "executed"

\* the step is a whole init_database call
InitDatabaseRan == started' # started /\ conn' = conn

\* ---- C21 (SchemaSpec)
\* C21: an init_database call leaves the file with the four tables and leaves
\* the rows of every table the file held as they were; on a file that holds the
\* four tables it changes nothing in the store, however often it is called.
C21_InitSchemaIdempotent ==
  [][InitDatabaseRan
       => /\ schema' = TableNames
          /\ "users" \in schema => users' = users
          /\ "text_responses" \in schema => text_responses' = text_responses
          /\ "voice_responses" \in schema => voice_responses' = voice_responses
          /\ "image_responses" \in schema => image_responses' = image_responses
          /\ schema = TableNames => UNCHANGED <<schema, tables>>]_vars

\* init_database has run on a file with the four tables, a user row and a
\* response row, and the rows are still there
C21_Witness ==
  /\ "op" \in DOMAIN query /\ query.op = "init_database"
  /\ query.schema = TableNames
  /\ query.user_rows = 1 /\ query.response_rows = 1
  /\ Cardinality({u \in Users : users[u] # None}) = 1
  /\ BagCardinality(text_responses) = 1

\* the rows of text_responses, copies counted, of a user for a prompt
TextRowCount(u, mystery_id) ==
  BagCardinality([r \in {x \in BagToSet(text_responses) :
                           x.user_id = u /\ x.mystery_id = mystery_id}
                   |-> text_responses[r]])

\* ---- C22 (Spec)
\* C22: in every reachable state text_responses holds at most one row for a
\* user and a prompt.
C22_OneRowPerUserAndPrompt ==
  \A u \in Users, mystery_id \in MysteryIds : TextRowCount(u, mystery_id) <= 1

\* the rows of text_responses, copies counted, of a user
TextRowsOf(u) ==
  BagCardinality([r \in {x \in BagToSet(text_responses) : x.user_id = u}
                   |-> text_responses[r]])

\* ---- C23 (Spec)
\* C23: a step that reports a submission whose response write raised leaves the
\* users table and the response tables as they were; a step that changes a
\* user's stored score has added a text_responses row for that user and the
\* submitted prompt; and a stored solved count never exceeds the number of
\* that user's text_responses rows.
C23_NoScoreWithoutResponse ==
  [][\A u \in Users :
       /\ Accepted(u) =>
            /\ LastOf(hist'[u]).outcome = "response_failed" => UNCHANGED tables
            /\ (users[u] # None /\ users'[u] # users[u]) =>
                 \A m \in MysteryIds :
                   LastOf(hist'[u]).mystery_id = m
                   => TextRowCount(u, m)' = TextRowCount(u, m) + 1
       /\ users'[u] # None => users'[u].mysteries_solved <= TextRowsOf(u)']_vars

\* a user with a scored submission whose next response write raised: the
\* score is that of the first submission alone
C23_Witness ==
  \E u \in Users :
    /\ users[u] # None /\ Len(hist[u]) = 2
    /\ hist[u][1].outcome = "ok" /\ hist[u][2].outcome = "response_failed"
    /\ users[u].mysteries_solved = 1 /\ TextRowsOf(u) = 1

\* the solved count the store holds for a user, 0 without a row (app.py:104)
StoredSolvedCount(u) == IF users[u] # None THEN users[u].mysteries_solved ELSE 0

\* ---- C24 (Spec)
\* C24: in every reachable state, for every text_responses row, the prompt's
\* unlock_requirement is at most the stored solved count of the row's user, and
\* with the store read the prompt is among that user's available prompts.
C24_SolvedIsAvailable ==
  \A u \in Users : \A r \in BagToSet(text_responses) :
    r.user_id = u
    => LET mystery == TELUGU_MYSTERIES[CatalogIndex(r.mystery_id)]
       IN  /\ mystery.unlock_requirement <= StoredSolvedCount(u)
           /\ mystery \in Range(get_available_mysteries(u, TRUE))
           /\ Status(u, mystery) = "Solved"

\* a user whose second prompt was stored while its score update raised: the
\* prompt needs one solved prompt and the stored count is one
C24_Witness ==
  \E u \in Users :
    /\ Len(hist[u]) = 2 /\ hist[u][2].outcome = "score_failed"
    /\ hist[u][2].mystery_id = "andhra_ugadi_002"
    /\ TextRowCount(u, "andhra_ugadi_002") = 1
    /\ StoredSolvedCount(u) = 1

\* ---- C25 (JourneyLiveSpec)
\* C25: for a user with a stored row, while no store operation raises,
\* get_next_mystery gives None only when all six prompts are solved, the
\* accepted submissions follow the catalog order, and a user who keeps
\* submitting accepted responses eventually has solved all six prompts.
C25_Progress ==
  /\ [](\A u \in JourneyUsers :
          (db /\ users[u] # None)
          => /\ get_next_mystery(u, TRUE, TRUE) = None
                  => get_solved_mystery_ids(u, TRUE) = MysteryIds
             /\ \A i \in DOMAIN hist[u] :
                  /\ i <= Len(TELUGU_MYSTERIES)
                  /\ hist[u][i].mystery_id = TELUGU_MYSTERIES[i].mystery_id)
  /\ \A u \in JourneyUsers :
       (db /\ users[u] # None) ~> (get_solved_mystery_ids(u, TRUE) = MysteryIds)

\* the user has solved the six prompts, by text, voice and image, and is
\* offered no further prompt
C25_Witness ==
  \E u \in JourneyUsers :
    /\ db /\ users[u] # None /\ users[u].mysteries_solved = 6
    /\ KindsOf(hist[u]) = Kinds
    /\ get_solved_mystery_ids(u, TRUE) = MysteryIds
    /\ get_next_mystery(u, TRUE, TRUE) = None

\* ---- C26 (JourneySpec)
\* C26: in every reachable state the session's mysteries_solved is at most the
\* number of prompts of the catalog.
C26_SessionCountWithinCatalog ==
  \A u \in Users : session[u].mysteries_solved <= Len(TELUGU_MYSTERIES)

\* ---- C27 (Spec)
\* C27: for a user with a stored row all of whose submissions the store saved,
\* the session's total_points and mysteries_solved equal the stored ones; and
\* load_user_data applied to a session that has not loaded yet gives the
\* stored total_points and mysteries_solved of any stored row.
C27_SessionMirrorsStore ==
  \A u \in Users :
    (db /\ users[u] # None)
    => /\ AllStored(hist[u])
            => /\ session[u].total_points = users[u].total_points
               /\ session[u].mysteries_solved = users[u].mysteries_solved
       /\ LET s == load_user_data(init_session_state, u, TRUE)
          IN  /\ s.user_data_loaded
              /\ s.total_points = users[u].total_points
              /\ s.mysteries_solved = users[u].mysteries_solved
              /\ s.profile.username = users[u].username

\* a user with two stored submissions, one of them an image, whose session
\* and row agree on a non-zero score
C27_Witness ==
  \E u \in Users :
    /\ db /\ users[u] # None /\ AllStored(hist[u]) /\ Len(hist[u]) = 2
    /\ "image" \in KindsOf(hist[u])
    /\ session[u].mysteries_solved = 2 /\ users[u].mysteries_solved = 2
    /\ session[u].total_points = users[u].total_points
    /\ load_user_data(init_session_state, u, TRUE).mysteries_solved = 2

\* ---- C28 (Spec)
\* C28: in every reachable state, for every user and prompt, voice_responses
\* holds as many rows as text_responses holds [VOICE] rows, and image_responses
\* holds rows exactly when text_responses holds an [IMAGES] row.
C28_MediaRowsAllOrNothing ==
  \A u \in Users, m \in MysteryIds :
    /\ CopiesIn(MediaRow(u, m), voice_responses)
         = CopiesIn(TextRow(u, m, "voice"), text_responses)
    /\ CopiesIn(MediaRow(u, m), image_responses) > 0
         <=> CopiesIn(TextRow(u, m, "image"), text_responses) > 0

\* the part of C28 that holds: the rows of one transaction are stored together
\* or not at all, an image submission with one image row for each file that
\* could be saved, be that none
C28_TransactionAllOrNothing ==
  \A u \in Users, m \in MysteryIds :
    /\ CopiesIn(MediaRow(u, m), voice_responses)
         = CopiesIn(TextRow(u, m, "voice"), text_responses)
    /\ CopiesIn(MediaRow(u, m), image_responses) > 0
         => CopiesIn(TextRow(u, m, "image"), text_responses) > 0

\* ---- C29 (Spec)
\* C29: update_user_points for a user id without a row leaves the users table
\* as it is; a step that reports the submission of a user without a row
\* leaves the users table as it is, and when no write raised the response is
\* stored and the session counters have moved.
C29_NoRowNoScore ==
  [][/\ \A u \in Users, points \in PointsArgs :
          users[u] = None => UsersAfterUpdate(users, u, points) = users
     /\ \A u \in Users :
          (db /\ users[u] = None /\ Accepted(u))
          => /\ users' = users
             /\ LastOf(hist'[u]).outcome = "ok"
                  => /\ TextRowsOf(u)' = TextRowsOf(u) + 1
                     /\ session'[u].mysteries_solved = session[u].mysteries_solved + 1
                     /\ session'[u].total_points > session[u].total_points]_vars

\* a user whose profile save raised has a submission the store saved without
\* an error, and no row
C29_Witness ==
  \E u \in Users :
    /\ db /\ users[u] = None /\ session[u].profile # None
    /\ Len(hist[u]) = 1 /\ hist[u][1].outcome = "ok"
    /\ TextRowsOf(u) = 1 /\ session[u].mysteries_solved = 1

\* the submissions in a history whose response write was committed
CommittedIn(h) == Cardinality({i \in DOMAIN h : h[i].outcome \in {"ok", "score_failed"}})

\* ---- C30 (Spec)
\* C30: in every reachable state get_total_responses is the number of
\* submissions reported as solved whose response write was committed, a text,
\* a voice and an image submission each counted once.
C30_TotalIsCommittedSubmissions ==
  get_total_responses = SumOver([u \in Users |-> CommittedIn(hist[u])], Users)

\* an image submission stored with its two image rows and a submission whose
\* response write raised: the total is one
C30_Witness ==
  /\ BagCardinality(image_responses) = 2
  /\ \E u \in Users : "response_failed" \in OutcomesOf(hist[u])
  /\ Submitted = 2
  /\ get_total_responses = 1

====
